---- MODULE Spec2Model ----
(***************************************************************************)
(* Model of the jsonschema2go command line front end (cli.go): one         *)
(* invocation of main, from the parsed option set to process exit.         *)
(*                                                                         *)
(* Strings and byte slices are sequences of symbols.  The absent value of  *)
(* an optional command line argument (a nil entry of the docopt map) is    *)
(* the empty tuple None; a present value v is Some(v) = <<v>>.             *)
(***************************************************************************)
EXTENDS Integers, Sequences, FiniteSets, TLC

VARIABLES
    inArg,          \* arguments["INPUT-URLS"]: None or Some(string)
    buildArg,       \* arguments["BUILD-DIRECTIVES"]: None or Some(string)
    outArg,         \* arguments["OUTPUT-FILE"]: None or Some(file name)
    stdin,          \* the bytes standard input delivers
    stdinEnd,       \* what the stream reports after its last byte: "EOF" or "ERR"
    pos,            \* number of bytes of stdin the bufio.Reader has consumed
    stdinReads,     \* number of ReadString calls made on standard input
    results,        \* parseStandardIn: the local slice results
    urls,           \* main: the local slice urls
    pc,             \* position of the invocation in main / formatSourceAndSave
    executeCalls,   \* every call of Execute: [urls, err]
    genSource,      \* the bytes Execute returned (result.SourceCode before line 112)
    sourceCode,     \* result.SourceCode / parameter sourceCode of formatSourceAndSave
    injections,     \* number of times line 112 ran
    importsCalls,   \* every call of imports.Process: [file, src, out, err]
    formatCalls,    \* every call of format.Source: [src, out, err]
    fixedImports,   \* formatSourceAndSave: local fixedImports
    formattedContent, \* formatSourceAndSave: local formattedContent
    err,            \* the error value currently held in err
    writes,         \* every ioutil.WriteFile call: [file, data, ok]
    disk,           \* content of the output file: None (no file) or Some(bytes)
    stdout,         \* bytes handed to standard output
    exitStatus      \* -1 while running, else the process exit status

vars == <<inArg, buildArg, outArg, stdin, stdinEnd, pos, stdinReads, results,
          urls, pc, executeCalls, genSource, sourceCode, injections,
          importsCalls, formatCalls, fixedImports, formattedContent, err,
          writes, disk, stdout, exitStatus>>

\* ------------------------------------------------------------------ bounds
MaxInLen == 3
MaxStdinLen == 3
MaxDirectiveLen == 1
MaxSourceLen == 1

\* ------------------------------------------------------- values and helpers
None == <<>>
Some(v) == <<v>>

NL == "\n"
SP == " "

SeqsUpTo(S, n) == UNION {[1..k -> S] : k \in 0..n}

InChars == {"a", SP}
StdinChars == {"x", "y", NL}
DirectiveChars == {"!", "w"}
SourceChars == {"i", "c"}

InArgs ==
    {None} \cup {Some(s) : s \in SeqsUpTo(InChars, MaxInLen)}
           \cup {Some(<<"a", SP, "b", SP, "c">>)}
Stdins == SeqsUpTo(StdinChars, MaxStdinLen) \cup {<<"x", NL, "y", NL>>}
\* standard input offered to a run that is given --in
IdleStdins == {<<>>, <<"x", NL>>}
BuildArgs == {None} \cup {Some(d) : d \in SeqsUpTo(DirectiveChars, MaxDirectiveLen)}
OutArgs == {None, Some("out.go")}
Sources == SeqsUpTo(SourceChars, MaxSourceLen)
\* imports.Process and format.Source are external text-to-text transforms:
\* on success each returns its input unchanged or some other byte sequence.
ImportsOutputs(src) == {src, <<"c">>, <<"imp">>}
FormatOutputs(src) == {src, <<"c">>, <<"fmt">>}

Errors == {"nil", "EOF", "readErr", "executeErr", "importsErr", "formatErr", "writeErr"}

\* index of the first occurrence of c in s after position from, 0 when none
RECURSIVE IndexFrom(_, _, _)
IndexFrom(s, c, from) ==
    IF from >= Len(s) THEN 0
    ELSE IF s[from + 1] = c THEN from + 1
    ELSE IndexFrom(s, c, from + 1)

Tail0(s, n) == SubSeq(s, n + 1, Len(s))

\* ------------------------------------------------------------ Input Collector
\* bufio.Reader.ReadString on the stream: the bytes up to and including the
\* first delimiter, or the bytes left and the stream's final error.
ReadString(stream, endKind, from, delimeter) ==
    LET i == IndexFrom(stream, delimeter, from) IN
    IF i > 0
    THEN [token |-> SubSeq(stream, from + 1, i), err |-> "nil", pos |-> i]
    ELSE [token |-> Tail0(stream, from),
          err |-> IF endKind = "EOF" THEN "EOF" ELSE "readErr",
          pos |-> Len(stream)]

\* faulty variant of StripDelimiter: the delimiter is left on the token
StripKeep(token) == token
\* lines 26-28: strip delimeter from end of string
StripDelimiter(token) ==
    IF token # <<>> THEN SubSeq(token, 1, Len(token) - 1) ELSE token

readStringStrip(stream, endKind, from, delimeter) ==
    LET r == ReadString(stream, endKind, from, delimeter) IN
    IF r.err # "nil"
    THEN [token |-> <<>>, err |-> r.err, pos |-> r.pos]
    ELSE [token |-> StripDelimiter(r.token), err |-> "nil", pos |-> r.pos]

\* faulty variant of ReturnAtEOF: the bytes read before end-of-stream are kept
ReturnWithPartial(res, stream, from) ==
    IF Tail0(stream, from) # <<>> THEN Append(res, Tail0(stream, from)) ELSE res
\* lines 37-39 and 45: at io.EOF the loop breaks and results is returned as
\* accumulated; the url of the failed read is not appended.
ReturnAtEOF(res, stream, from) == res

\* faulty variant of Split: empty fields are dropped, as strings.Fields does
RECURSIVE SplitFields(_)
SplitFields(s) ==
    LET m == IndexFrom(s, SP, 0) IN
    IF m = 0 THEN (IF s = <<>> THEN <<>> ELSE <<s>>)
    ELSE IF m = 1 THEN SplitFields(Tail0(s, m))
    ELSE <<SubSeq(s, 1, m - 1)>> \o SplitFields(Tail0(s, m))
\* strings.Split(s, " ") of line 95
RECURSIVE Split(_)
Split(s) ==
    LET m == IndexFrom(s, SP, 0) IN
    IF m = 0 THEN <<s>>
    ELSE <<SubSeq(s, 1, m - 1)>> \o Split(Tail0(s, m))

\* ---------------------------------------------------------- Directive Injector
BuildPrefix == "// +build "
\* faulty variant of Inject: the directive line is not terminated
InjectNoNewline(directives, code) == <<BuildPrefix>> \o directives \o code
\* line 112: append([]byte("// +build "+directives+"\n"), result.SourceCode...)
Inject(directives, code) == <<BuildPrefix>> \o directives \o <<NL>> \o code

\* ------------------------------------------------------------- Output Sink
\* faulty variant of StreamBytes: fmt.Print instead of fmt.Println
StreamBytesNoNewline(code) == code
\* line 120: fmt.Println(string(result.SourceCode))
StreamBytes(code) == code \o <<NL>>

\* faulty variant of ExecuteFailed: the error of Execute is ignored
ExecuteNeverFailed(e) == FALSE
\* line 108: if err != nil
ExecuteFailed(e) == e # "nil"

\* faulty variant of SaveFailed: the error of formatSourceAndSave is ignored
SaveNeverFailed(e) == FALSE
\* line 116: if err != nil
SaveFailed(e) == e # "nil"

\* ---------------------------------------------------------- Source Normalizer
\* faulty variant of Stage2Attempted: the formatter runs whatever Stage 1 did
Stage2Always(e) == TRUE
\* line 129: only perform general format, if that worked...
Stage2Attempted(e) == e = "nil"

\* faulty variant of Stage2Input: the formatter is given the original bytes
Stage2InputOriginal(fixed, original) == original
\* line 131: format.Source(fixedImports)
Stage2Input(fixed, original) == fixed

\* faulty variant of FallbackData: the intermediate bytes are kept
FallbackDataIntermediate(original, fixed) == fixed
\* line 138: ioutil.WriteFile(sourceFile, sourceCode, 0644)
FallbackData(original, fixed) == original

\* faulty variant of SuccessData: the import-fixed bytes are written
SuccessDataFixed(formatted, fixed) == fixed
\* line 141: ioutil.WriteFile(sourceFile, formattedContent, 0644)
SuccessData(formatted, fixed) == formatted

\* ioutil.WriteFile(file, data, 0644): on success the file holds data; on
\* failure the file is untouched (open failed) or holds a prefix of data.
AfterFailedWrite(old, data) ==
    {old} \cup {Some(SubSeq(data, 1, k)) : k \in 0..Len(data)}

\* ------------------------------------------------------------------- Init
Init ==
    /\ inArg \in InArgs
    /\ stdin \in (IF inArg = None THEN Stdins ELSE IdleStdins)
    /\ stdinEnd \in {"EOF", "ERR"}
    /\ buildArg \in BuildArgs
    /\ outArg \in OutArgs
    /\ pos = 0
    /\ stdinReads = 0
    /\ results = <<>>
    /\ urls = <<>>
    /\ pc = "collect"
    /\ executeCalls = <<>>
    /\ genSource = <<>>
    /\ sourceCode = <<>>
    /\ injections = 0
    /\ importsCalls = <<>>
    /\ formatCalls = <<>>
    /\ fixedImports = <<>>
    /\ formattedContent = <<>>
    /\ err = "nil"
    /\ writes = <<>>
    /\ disk = None
    /\ stdout = <<>>
    /\ exitStatus = -1

\* log.Fatalf: print the message and os.Exit(1)
Fatal == pc' = "exited" /\ exitStatus' = 1

\* -------------------------------------------------------------------- main
\* lines 94-95: the --in argument is split, standard input is left alone
SplitInline ==
    /\ pc = "collect"
    /\ inArg # None
    /\ urls' = Split(inArg[1])
    /\ pc' = "execute"
    /\ UNCHANGED <<inArg, buildArg, outArg, stdin, stdinEnd, pos, stdinReads,
                   results, executeCalls, genSource, sourceCode, injections,
                   importsCalls, formatCalls, fixedImports, formattedContent,
                   err, writes, disk, stdout, exitStatus>>

\* lines 35-44: one iteration of the loop of parseStandardIn that appends
ReadRecord ==
    /\ pc = "collect"
    /\ inArg = None
    /\ LET r == readStringStrip(stdin, stdinEnd, pos, NL) IN
        /\ r.err = "nil"
        /\ results' = Append(results, r.token)
        /\ pos' = r.pos
    /\ stdinReads' = stdinReads + 1
    /\ UNCHANGED <<inArg, buildArg, outArg, stdin, stdinEnd, urls, pc,
                   executeCalls, genSource, sourceCode, injections,
                   importsCalls, formatCalls, fixedImports, formattedContent,
                   err, writes, disk, stdout, exitStatus>>

\* lines 36-39, 45 and 97-98: the read that meets end-of-stream ends the loop
ReadEOF ==
    /\ pc = "collect"
    /\ inArg = None
    /\ LET r == readStringStrip(stdin, stdinEnd, pos, NL) IN
        /\ r.err = "EOF"
        /\ urls' = ReturnAtEOF(results, stdin, pos)
        /\ pos' = r.pos
    /\ stdinReads' = stdinReads + 1
    /\ pc' = "execute"
    /\ UNCHANGED <<inArg, buildArg, outArg, stdin, stdinEnd, results,
                   executeCalls, genSource, sourceCode, injections,
                   importsCalls, formatCalls, fixedImports, formattedContent,
                   err, writes, disk, stdout, exitStatus>>

\* lines 40-42 and 97-100: any other read error is fatal
ReadError ==
    /\ pc = "collect"
    /\ inArg = None
    /\ LET r == readStringStrip(stdin, stdinEnd, pos, NL) IN
        /\ r.err \notin {"nil", "EOF"}
        /\ err' = r.err
        /\ pos' = r.pos
    /\ stdinReads' = stdinReads + 1
    /\ urls' = <<>>
    /\ Fatal
    /\ UNCHANGED <<inArg, buildArg, outArg, stdin, stdinEnd, results,
                   executeCalls, genSource, sourceCode, injections,
                   importsCalls, formatCalls, fixedImports, formattedContent,
                   writes, disk, stdout>>

\* lines 102-110: the job is built from urls and executed once
ExecuteJob ==
    /\ pc = "execute"
    /\ \E e \in {"nil", "executeErr"} :
        /\ err' = e
        /\ executeCalls' = Append(executeCalls, [urls |-> urls, err |-> e])
        /\ IF ExecuteFailed(e)
           THEN genSource' = <<>> /\ Fatal
           ELSE /\ genSource' \in Sources
                /\ pc' = "inject"
                /\ exitStatus' = exitStatus
    /\ sourceCode' = genSource'
    /\ UNCHANGED <<inArg, buildArg, outArg, stdin, stdinEnd, pos, stdinReads,
                   results, urls, injections, importsCalls, formatCalls,
                   fixedImports, formattedContent, writes, disk, stdout>>

\* lines 111-113: the build directive line is prepended
InjectDirective ==
    /\ pc = "inject"
    /\ buildArg # None
    /\ sourceCode' = Inject(buildArg[1], sourceCode)
    /\ injections' = injections + 1
    /\ pc' = "sink"
    /\ UNCHANGED <<inArg, buildArg, outArg, stdin, stdinEnd, pos, stdinReads,
                   results, urls, executeCalls, genSource, importsCalls,
                   formatCalls, fixedImports, formattedContent, err, writes,
                   disk, stdout, exitStatus>>

\* line 111: no directive given
SkipDirective ==
    /\ pc = "inject"
    /\ buildArg = None
    /\ pc' = "sink"
    /\ UNCHANGED <<inArg, buildArg, outArg, stdin, stdinEnd, pos, stdinReads,
                   results, urls, executeCalls, genSource, sourceCode,
                   injections, importsCalls, formatCalls, fixedImports,
                   formattedContent, err, writes, disk, stdout, exitStatus>>

\* lines 119-122: no output file, the source is printed and main returns
PrintSource ==
    /\ pc = "sink"
    /\ outArg = None
    /\ stdout' = stdout \o StreamBytes(sourceCode)
    /\ pc' = "exited"
    /\ exitStatus' = 0
    /\ UNCHANGED <<inArg, buildArg, outArg, stdin, stdinEnd, pos, stdinReads,
                   results, urls, executeCalls, genSource, sourceCode,
                   injections, importsCalls, formatCalls, fixedImports,
                   formattedContent, err, writes, disk>>

\* ------------------------------------------------------ formatSourceAndSave
\* lines 114-115 and 126: imports.Process(sourceFile, sourceCode, nil)
ImportsProcess ==
    /\ pc = "sink"
    /\ outArg # None
    /\ \/ /\ err' = "importsErr"
          /\ fixedImports' = <<>>
       \/ /\ err' = "nil"
          /\ fixedImports' \in ImportsOutputs(sourceCode)
    /\ importsCalls' = Append(importsCalls, [file |-> outArg[1], src |-> sourceCode,
                                             out |-> fixedImports', err |-> err'])
    /\ pc' = "format"
    /\ UNCHANGED <<inArg, buildArg, outArg, stdin, stdinEnd, pos, stdinReads,
                   results, urls, executeCalls, genSource, sourceCode,
                   injections, formatCalls, formattedContent, writes, disk,
                   stdout, exitStatus>>

\* lines 129-132: format.Source(fixedImports)
FormatSource ==
    /\ pc = "format"
    /\ Stage2Attempted(err)
    /\ LET input == Stage2Input(fixedImports, sourceCode) IN
        /\ \/ /\ err' = "formatErr"
              /\ formattedContent' = <<>>
           \/ /\ err' = "nil"
              /\ formattedContent' \in FormatOutputs(input)
        /\ formatCalls' = Append(formatCalls, [src |-> input,
                                               out |-> formattedContent',
                                               err |-> err'])
    /\ pc' = "save"
    /\ UNCHANGED <<inArg, buildArg, outArg, stdin, stdinEnd, pos, stdinReads,
                   results, urls, executeCalls, genSource, sourceCode,
                   injections, importsCalls, fixedImports, writes, disk,
                   stdout, exitStatus>>

\* line 129: Stage 1 failed, the formatter is skipped
SkipFormat ==
    /\ pc = "format"
    /\ ~Stage2Attempted(err)
    /\ pc' = "save"
    /\ UNCHANGED <<inArg, buildArg, outArg, stdin, stdinEnd, pos, stdinReads,
                   results, urls, executeCalls, genSource, sourceCode,
                   injections, importsCalls, formatCalls, fixedImports,
                   formattedContent, err, writes, disk, stdout, exitStatus>>

\* lines 136-140: keep the unformatted version and return the stage's error
WriteOriginal ==
    /\ pc = "save"
    /\ err # "nil"
    /\ LET data == FallbackData(sourceCode, fixedImports) IN
        \/ /\ writes' = Append(writes, [file |-> outArg[1], data |-> data, ok |-> TRUE])
           /\ disk' = Some(data)
        \/ /\ writes' = Append(writes, [file |-> outArg[1], data |-> data, ok |-> FALSE])
           /\ disk' \in AfterFailedWrite(disk, data)
    /\ pc' = "return"
    /\ UNCHANGED <<inArg, buildArg, outArg, stdin, stdinEnd, pos, stdinReads,
                   results, urls, executeCalls, genSource, sourceCode,
                   injections, importsCalls, formatCalls, fixedImports,
                   formattedContent, err, stdout, exitStatus>>

\* line 141: write the formatted bytes and return the error of the write
WriteFormatted ==
    /\ pc = "save"
    /\ err = "nil"
    /\ LET data == SuccessData(formattedContent, fixedImports) IN
        \/ /\ writes' = Append(writes, [file |-> outArg[1], data |-> data, ok |-> TRUE])
           /\ disk' = Some(data)
           /\ err' = "nil"
        \/ /\ writes' = Append(writes, [file |-> outArg[1], data |-> data, ok |-> FALSE])
           /\ disk' \in AfterFailedWrite(disk, data)
           /\ err' = "writeErr"
    /\ pc' = "return"
    /\ UNCHANGED <<inArg, buildArg, outArg, stdin, stdinEnd, pos, stdinReads,
                   results, urls, executeCalls, genSource, sourceCode,
                   injections, importsCalls, formatCalls, fixedImports,
                   formattedContent, stdout, exitStatus>>

\* lines 115-118 and 122: the error of formatSourceAndSave decides the exit
ExitAfterSave ==
    /\ pc = "return"
    /\ IF SaveFailed(err)
       THEN Fatal
       ELSE pc' = "exited" /\ exitStatus' = 0
    /\ UNCHANGED <<inArg, buildArg, outArg, stdin, stdinEnd, pos, stdinReads,
                   results, urls, executeCalls, genSource, sourceCode,
                   injections, importsCalls, formatCalls, fixedImports,
                   formattedContent, err, writes, disk, stdout>>

Next ==
    \/ SplitInline
    \/ ReadRecord
    \/ ReadEOF
    \/ ReadError
    \/ ExecuteJob
    \/ InjectDirective
    \/ SkipDirective
    \/ PrintSource
    \/ ImportsProcess
    \/ FormatSource
    \/ SkipFormat
    \/ WriteOriginal
    \/ WriteFormatted
    \/ ExitAfterSave

Spec == Init /\ [][Next]_vars

TypeOK ==
    /\ pc \in {"collect", "execute", "inject", "sink", "format", "save", "return", "exited"}
    /\ err \in Errors
    /\ exitStatus \in {-1, 0, 1}
    /\ pos \in 0..Len(stdin)
    /\ (pc = "exited") = (exitStatus # -1)

\* ---------------------------------------------------------------- properties
Count(s, c) == Cardinality({i \in 1..Len(s) : s[i] = c})
\* position of the k-th occurrence of c in s (k >= 1), 0 for k = 0
NthIndex(s, c, k) ==
    IF k = 0 THEN 0
    ELSE CHOOSE p \in 1..Len(s) :
            s[p] = c /\ Cardinality({q \in 1..(p - 1) : s[q] = c}) = k - 1
LastIndex(s, c) == NthIndex(s, c, Count(s, c))
\* the pieces of s, each followed by one terminator c, laid end to end
RECURSIVE Terminated(_, _)
Terminated(pieces, c) ==
    IF pieces = <<>> THEN <<>>
    ELSE Head(pieces) \o <<c>> \o Terminated(Tail(pieces), c)
\* the pieces of a non-empty list with one separator c between neighbours
RECURSIVE Separated(_, _)
Separated(pieces, c) ==
    IF Len(pieces) = 1 THEN pieces[1]
    ELSE Head(pieces) \o <<c>> \o Separated(Tail(pieces), c)

Collected == pc # "collect" /\ err # "readErr"
FromStream == inArg = None
Returned == pc \in {"return", "exited"} /\ importsCalls # <<>>
Stage1Failed == importsCalls # <<>> /\ importsCalls[1].err # "nil"
Stage1Ok == importsCalls # <<>> /\ importsCalls[1].err = "nil"
Stage2Failed == formatCalls # <<>> /\ formatCalls[1].err # "nil"
Stage2Ok == formatCalls # <<>> /\ formatCalls[1].err = "nil"
EngineFailed == executeCalls # <<>> /\ executeCalls[1].err # "nil"
\* the engine's bytes with the directive line in front, when one was given
Directed ==
    IF buildArg = None THEN genSource
    ELSE <<BuildPrefix>> \o buildArg[1] \o <<NL>> \o genSource

\* C1: when Stage 1 fails, or Stage 1 succeeds and Stage 2 fails, the one write
\* to the output file carries the original bytes handed to formatSourceAndSave
\* (and the file holds them when the write succeeds), and the call returns an
\* error.
C1_FailureKeepsOriginal ==
    (Returned /\ (Stage1Failed \/ (Stage1Ok /\ Stage2Failed))) =>
        /\ Len(writes) = 1
        /\ writes[1].file = outArg[1]
        /\ writes[1].data = importsCalls[1].src
        /\ writes[1].data = Directed
        /\ (writes[1].ok => disk = Some(Directed))
        /\ (pc = "return" => err # "nil")
C1_Witness ==
    /\ pc = "return" /\ Stage1Ok /\ Stage2Failed
    /\ importsCalls[1].out # importsCalls[1].src
    /\ writes[1].ok /\ disk = Some(sourceCode) /\ buildArg # None

\* C2: when both stages succeed the file is written exactly once, with the
\* formatter's output for the import fixer's output for the original bytes,
\* and the call returns no error whenever that write succeeds.
C2_SuccessWritesNormalized ==
    (Returned /\ Stage1Ok /\ Stage2Ok) =>
        /\ Len(writes) = 1
        /\ Len(importsCalls) = 1 /\ Len(formatCalls) = 1
        /\ importsCalls[1].file = outArg[1]
        /\ importsCalls[1].src = Directed
        /\ formatCalls[1].src = importsCalls[1].out
        /\ writes[1].file = outArg[1]
        /\ writes[1].data = formatCalls[1].out
        /\ (writes[1].ok => disk = Some(formatCalls[1].out))
        /\ (writes[1].ok /\ pc = "return" => err = "nil")
C2_Witness ==
    /\ pc = "return" /\ Stage1Ok /\ Stage2Ok /\ writes[1].ok /\ err = "nil"
    /\ importsCalls[1].out # importsCalls[1].src
    /\ formatCalls[1].out # formatCalls[1].src
    /\ disk = Some(<<"fmt">>)

\* C3: without an output file neither stage of the normalizer is ever called
\* and no file is written; a run that reaches the sink puts exactly the
\* directive-prefixed, unnormalized bytes and one newline on standard output
\* and exits with status 0.
C3_StreamNeverNormalized ==
    outArg = None =>
        /\ importsCalls = <<>> /\ formatCalls = <<>>
        /\ writes = <<>> /\ disk = None
        /\ (pc = "exited" /\ ~EngineFailed /\ err # "readErr" =>
                /\ stdout = Directed \o <<NL>>
                /\ exitStatus = 0)
        /\ (pc # "exited" => stdout = <<>>)
C3_Witness ==
    /\ outArg = None /\ pc = "exited" /\ exitStatus = 0
    /\ buildArg = Some(<<"!">>) /\ genSource = <<"i">>
    /\ stdout = <<BuildPrefix, "!", NL, "i", NL>>

\* C4: after a standard input read error, or an error returned by Execute, the
\* process has exited with a non-zero status; nothing was written to the file
\* or to standard output, no directive was injected, no normalizer stage ran,
\* Execute was called at most once, and not at all after a read error.
C4_FatalBeforeSink ==
    /\ Len(executeCalls) <= 1
    /\ (err = "readErr" \/ EngineFailed) =>
        /\ pc = "exited" /\ exitStatus = 1
        /\ writes = <<>> /\ disk = None /\ stdout = <<>>
        /\ injections = 0 /\ sourceCode = <<>>
        /\ importsCalls = <<>> /\ formatCalls = <<>>
        /\ (err = "readErr" => executeCalls = <<>>)
C4_Witness ==
    /\ EngineFailed /\ pc = "exited" /\ exitStatus = 1
    /\ outArg # None /\ buildArg # None /\ urls # <<>>

\* C5: with an output file, the process exits 0 exactly when both stages and
\* the write succeeded; when a stage failed the write of the unnormalized
\* bytes has been attempted by the time the call returns, and the exit status
\* is then non-zero.
C5_ExitFollowsNormalizer ==
    /\ (pc = "exited" /\ importsCalls # <<>> =>
            /\ Len(writes) = 1
            /\ (exitStatus = 0) = (Stage1Ok /\ Stage2Ok /\ writes[1].ok)
            /\ exitStatus \in {0, 1})
    /\ (Returned /\ (Stage1Failed \/ Stage2Failed) =>
            /\ Len(writes) = 1
            /\ writes[1].data = Directed
            /\ (pc = "exited" => exitStatus = 1))
    /\ (outArg # None /\ pc = "exited" /\ importsCalls = <<>> =>
            err = "readErr" \/ EngineFailed)
C5_Witness ==
    /\ pc = "exited" /\ exitStatus = 1 /\ Stage1Failed
    /\ Len(writes) = 1 /\ writes[1].ok /\ disk = Some(sourceCode)

\* C6: the bytes handed to the sink stage (the normalizer or the stream) are
\* "// +build " + d + "\n" + B when a directive d is given and B otherwise; the
\* prepend runs at most once, exactly once when a directive is given, and no
\* normalizer stage runs before it.
C6_DirectiveInjection ==
    /\ injections <= 1
    /\ (pc \in {"collect", "execute", "inject"} =>
            importsCalls = <<>> /\ formatCalls = <<>> /\ stdout = <<>>)
    /\ (pc \in {"sink", "format", "save", "return"} \/ (pc = "exited" /\ err # "readErr" /\ ~EngineFailed) =>
            /\ sourceCode = Directed
            /\ injections = (IF buildArg = None THEN 0 ELSE 1))
    /\ \A i \in 1..Len(importsCalls) : importsCalls[i].src = Directed
    /\ (stdout # <<>> => stdout = Directed \o <<NL>>)
C6_Witness ==
    /\ buildArg = Some(<<"w">>) /\ genSource = <<"c">>
    /\ importsCalls # <<>>
    /\ importsCalls[1].src = <<BuildPrefix, "w", NL, "c">>

\* C7: a stream read to end-of-stream without error yields its
\* newline-terminated records in stream order, one list entry per newline, each
\* entry being the bytes between two neighbouring newlines with the newline
\* itself removed, empty records included; "x\ny\n" yields ["x","y"] and the
\* empty stream yields the empty list, with no error.
C7_StreamRecords ==
    (FromStream /\ Collected) =>
        /\ stdinEnd = "EOF"
        /\ Len(urls) = Count(stdin, NL)
        /\ \A k \in 1..Len(urls) :
              urls[k] = SubSeq(stdin, NthIndex(stdin, NL, k - 1) + 1,
                               NthIndex(stdin, NL, k) - 1)
        /\ (stdin = <<"x", NL, "y", NL>> => urls = << <<"x">>, <<"y">> >>)
        /\ (stdin = <<>> => urls = <<>>)
        /\ (pc = "execute" => err = "nil")
        /\ \A i \in 1..Len(executeCalls) : executeCalls[i].urls = urls
C7_Witness ==
    /\ FromStream /\ executeCalls # <<>>
    /\ stdin = <<"x", NL, "y", NL>>
    /\ executeCalls[1].urls = << <<"x">>, <<"y">> >>

\* C8: with --in the list given to the engine is the argument split at every
\* single space, in order and untrimmed (one more entry than there are spaces,
\* none holding a space, and joined by single spaces they give the argument
\* back; "a b c" yields ["a","b","c"]), and standard input is never read.
C8_InlineSplit ==
    inArg # None =>
        /\ stdinReads = 0 /\ pos = 0 /\ results = <<>>
        /\ (pc # "collect" =>
                /\ Len(urls) = Count(inArg[1], SP) + 1
                /\ \A k \in 1..Len(urls) : Count(urls[k], SP) = 0
                /\ Separated(urls, SP) = inArg[1]
                /\ (inArg[1] = <<"a", SP, "b", SP, "c">> =>
                        urls = << <<"a">>, <<"b">>, <<"c">> >>)
                /\ \A i \in 1..Len(executeCalls) : executeCalls[i].urls = urls)
C8_Witness ==
    /\ inArg = Some(<<SP, "a", SP>>) /\ stdin # <<>>
    /\ executeCalls # <<>>
    /\ executeCalls[1].urls = << <<>>, <<"a">>, <<>> >>

\* C9: the formatter is called only after the import fixer has succeeded, and
\* on the import fixer's output; when the import fixer fails the formatter is
\* never called and the error returned is the import fixer's.
C9_Stage2AfterStage1 ==
    /\ Len(formatCalls) <= 1
    /\ (formatCalls # <<>> =>
            /\ Stage1Ok
            /\ formatCalls[1].src = importsCalls[1].out)
    /\ (Stage1Failed =>
            /\ formatCalls = <<>>
            /\ (pc \in {"format", "save", "return"} => err = "importsErr"))
C9_Witness ==
    /\ pc = "return" /\ Stage1Failed /\ formatCalls = <<>> /\ err = "importsErr"
    /\ writes # <<>>

\* C10: the bytes after the last newline of the stream never reach the list:
\* the entries, each with its newline put back, laid end to end are the stream
\* up to and including its last newline; "x\ny" yields ["x"], a stream without
\* newline yields the empty list, and no error is reported.
C10_UnterminatedTailDropped ==
    (FromStream /\ Collected) =>
        /\ Terminated(urls, NL) = SubSeq(stdin, 1, LastIndex(stdin, NL))
        /\ \A k \in 1..Len(urls) : Count(urls[k], NL) = 0
        /\ (stdin = <<"x", NL, "y">> => urls = << <<"x">> >>)
        /\ (Count(stdin, NL) = 0 => urls = <<>>)
        /\ (pc = "execute" => err = "nil" /\ exitStatus = -1)
C10_Witness ==
    /\ FromStream /\ pc = "execute" /\ err = "nil"
    /\ stdin = <<"x", NL, "y">> /\ urls = << <<"x">> >>
    /\ pos = Len(stdin)

====
